---- MODULE Spec2Model ----
(***************************************************************************)
(* Benchmark harness of src/src/BenchmarkRunner.tsx: the sweep issued by   *)
(* runBenchmarks, the completion handlers made by completeBenchmark, the   *)
(* two propagation media (the module-level Redux store, the per-root       *)
(* ContextProvider) and one mounted BenchmarkApp (the depth simulator).    *)
(*                                                                         *)
(* JavaScript objects are references: newResults[k] is the object that the *)
(* k-th call of runBenchmarks allocates, and benchmarkResults holds a      *)
(* reference to such an object, not a copy of it.                          *)
(***************************************************************************)
EXTENDS Integers, Sequences, FiniteSets, TLC

\* ------------------------------------------------------------------ bounds
\* The configured lists are cut to a prefix of at most NumSizes sizes and
\* NumDepths depths (the reduced matrix {10, 100} x {5, 10} is the largest).
NumSizes == 2
NumDepths == 2
\* createRoot is called at most MaxRuns times over all sweeps.
MaxRuns == 8
\* performance.now() differences are drawn from 0..MaxElapsed.
MaxElapsed == 1
\* One mounted BenchmarkApp: its depth is drawn from 0..MaxDepth and the
\* clock read by performance.now() runs over 0..MaxTime.
MaxDepth == 3
MaxTime == 2
\* generateTestData: every size of 0..MaxLen gets every choice of values, a value
\* (Math.random() * 1000, cut to an integer) being drawn from 0..MaxRand.
MaxLen == 3
MaxRand == 1

\* ------------------------------------------------------------ configuration
allArraySizes == <<10, 100, 1000, 10000, 100000, 1000000>>
allDepths == <<5, 10, 20, 50, 60, 70, 80, 90, 100>>

Methods == {"context", "redux"}

VARIABLES
    arraySizes,         \* the configured sizes (a prefix of allArraySizes)
    depths,             \* the configured depths (a prefix of allDepths)
    isRunning,          \* useState(false)
    benchmarkResults,   \* useState: 0 is the initial object, k > 0 is newResults[k]
    newResults,         \* newResults[k]: the object allocated by the k-th runBenchmarks
    roots,              \* every createRoot(...).render(...) issued, in issue order
    pending,            \* roots whose leaf effect has not run yet
    elapsed,            \* root -> the time its onComplete was called with
    writers,            \* medium -> the roots whose update (dispatch, setData) it
                        \* has received; the value a medium holds after an update
                        \* is followed in the single-app specification
    reported,           \* sweeps whose handler has run the completion step
    sim,                \* one BenchmarkApp mounted on its own
    gen                 \* generateTestData called on its own: its size and results

vars == <<arraySizes, depths, isRunning, benchmarkResults, newResults, roots,
          pending, elapsed, writers, reported, sim, gen>>

harnessVars == <<arraySizes, depths, isRunning, benchmarkResults, newResults,
                 roots, pending, elapsed, writers, reported>>

\* ----------------------------------------------------------------- helpers
Range(s) == {s[i] : i \in 1..Len(s)}

EmptyMap == [x \in {} |-> 0]

\* obj[key] = value on a JavaScript object
Put(obj, key, value) ==
    [x \in (DOMAIN obj) \cup {key} |-> IF x = key THEN value ELSE obj[x]]

\* Object.keys(obj)
ObjectKeys(obj) == DOMAIN obj

\* the decimal digits of a non-negative integer, as `${n}` prints them
RECURSIVE NumberToString(_)
NumberToString(n) ==
    IF n < 10 THEN <<n>> ELSE NumberToString(n \div 10) \o <<n % 10>>

\* `${size} objects`
SizeLabel(size) == <<NumberToString(size), " objects">>

\* `Depth ${depth}`
DepthLabel(depth) == <<"Depth ", NumberToString(depth)>>

\* { context: {}, redux: {} }
EmptyResults == [context |-> EmptyMap, redux |-> EmptyMap]

\* the object a reference held by benchmarkResults points to
Deref(ref) == IF ref = 0 THEN EmptyResults ELSE newResults[ref]

\* ------------------------------------------------------------ propagation media
\* the module-level store: one instance for the whole program
StoreMedium == [kind |-> "store", root |-> 0]

\* the ContextProvider rendered inside root r: one useState per root
ProviderMedium(r) == [kind |-> "provider", root |-> r]

\* the element tree rendered into root r: which medium wraps the BenchmarkApp
MediumOf(method, r) ==
    IF method = "context" THEN ProviderMedium(r) ELSE StoreMedium

\* ------------------------------------------------------------ runBenchmarks
\* a handler that sees the loop's last depth instead of its own
completeBenchmarkLastDepth(sweep, method, size, depth) ==
    [sweep |-> sweep, method |-> method, size |-> size,
     depth |-> depths[Len(depths)]]

\* completeBenchmark(method, size, depth): the handler closes over its key and
\* over the newResults object of the sweep that made it
completeBenchmark(sweep, method, size, depth) ==
    [sweep |-> sweep, method |-> method, size |-> size, depth |-> depth]

\* the second root of the loop body pasted from the first with its handler
\* left bound to "context"
MountOfPasted(sweep, method, size, depth, r) ==
    [sweep |-> sweep, method |-> method, arraySize |-> size, depth |-> depth,
     onComplete |-> completeBenchmark(sweep, "context", size, depth),
     medium |-> MediumOf(method, r)]

\* one createRoot(...).render(<BenchmarkApp .../>) of the loop body
MountOf(sweep, method, size, depth, r) ==
    [sweep |-> sweep, method |-> method, arraySize |-> size, depth |-> depth,
     onComplete |-> completeBenchmark(sweep, method, size, depth),
     medium |-> MediumOf(method, r)]

\* depths.forEach: for each depth the "context" root, then the "redux" root
RECURSIVE DepthLoop(_, _, _, _, _)
DepthLoop(sweep, size, ds, j, base) ==
    IF j > Len(ds) THEN <<>>
    ELSE <<MountOf(sweep, "context", size, ds[j], base + 1),
           MountOf(sweep, "redux", size, ds[j], base + 2)>>
         \o DepthLoop(sweep, size, ds, j + 1, base + 2)

\* arraySizes.forEach
RECURSIVE SizeLoop(_, _, _, _, _)
SizeLoop(sweep, ss, ds, i, base) ==
    IF i > Len(ss) THEN <<>>
    ELSE DepthLoop(sweep, ss[i], ds, 1, base)
         \o SizeLoop(sweep, ss, ds, i + 1, base + 2 * Len(ds))

\* ------------------------------------------------------- the completion handler
\* the size row created anew at every call (the guard of line 121 dropped)
RecordResultResetRow(results, method, size, depth, time) ==
    LET sl == SizeLabel(size)
        dl == DepthLabel(depth)
        rows1 == Put(results[method], sl, EmptyMap)
        rows2 == Put(rows1, sl, Put(rows1[sl], dl, time))
    IN [results EXCEPT ![method] = rows2]

\* context and redux initialised to one shared {} object: a write under one
\* strategy shows under both
RecordResultAliased(results, method, size, depth, time) ==
    LET sl == SizeLabel(size)
        dl == DepthLabel(depth)
        rows == results[method]
        rows1 == IF sl \notin DOMAIN rows THEN Put(rows, sl, EmptyMap) ELSE rows
        rows2 == Put(rows1, sl, Put(rows1[sl], dl, time))
    IN [context |-> rows2, redux |-> rows2]

\* lines 121-124: create the size row on first use, then set the depth cell
RecordResult(results, method, size, depth, time) ==
    LET sl == SizeLabel(size)
        dl == DepthLabel(depth)
        rows == results[method]
        rows1 == IF sl \notin DOMAIN rows THEN Put(rows, sl, EmptyMap) ELSE rows
        rows2 == Put(rows1, sl, Put(rows1[sl], dl, time))
    IN [results EXCEPT ![method] = rows2]

\* the check comparing the populated size labels with depths.length
AllCompleteVsDepths(results, sizes) ==
    /\ Cardinality(ObjectKeys(results.context)) = Len(depths)
    /\ Cardinality(ObjectKeys(results.redux)) = Len(depths)

\* lines 127-133: the completeness check
AllComplete(results, sizes) ==
    LET contextSizes == ObjectKeys(results.context)
        reduxSizes == ObjectKeys(results.redux)
    IN /\ Cardinality(contextSizes) = Len(sizes)
       /\ Cardinality(reduxSizes) = Len(sizes)

\* ------------------------------------------------------------------- state
SimIdle ==
    [phase |-> "idle", method |-> "context", depth |-> 0, level |-> 0,
     layers |-> 0, leaves |-> 0, leafMounted |-> FALSE, effectPending |-> FALSE,
     startTime |-> 0, now |-> 0, calls |-> <<>>, time |-> 0,
     data |-> "empty", queued |-> FALSE, dataAtComplete |-> "none"]

HarnessInit ==
    /\ \E ns \in 1..NumSizes : arraySizes = SubSeq(allArraySizes, 1, ns)
    /\ \E nd \in 1..NumDepths : depths = SubSeq(allDepths, 1, nd)
    /\ isRunning = FALSE
    /\ benchmarkResults = 0
    /\ newResults = <<>>
    /\ roots = <<>>
    /\ pending = {}
    /\ elapsed = EmptyMap
    /\ writers = EmptyMap
    /\ reported = {}

GenIdle == [size |-> 0, results |-> <<>>]

Init == HarnessInit /\ sim = SimIdle /\ gen = GenIdle

\* ------------------------------------------------------------------ actions
\* a click on the button (disabled while isRunning): runBenchmarks
RunBenchmarks ==
    /\ ~isRunning
    /\ Len(roots) + 2 * Len(arraySizes) * Len(depths) <= MaxRuns
    /\ LET sweep == Len(newResults) + 1
           issued == SizeLoop(sweep, arraySizes, depths, 1, Len(roots))
           ids == (Len(roots) + 1)..(Len(roots) + Len(issued))
       IN /\ isRunning' = TRUE
          /\ newResults' = Append(newResults, EmptyResults)
          /\ roots' = roots \o issued
          /\ pending' = pending \cup ids
    /\ UNCHANGED <<arraySizes, depths, benchmarkResults, elapsed, writers,
                   reported, sim, gen>>

\* the handler with the completion step outside the if
OnCompleteAlwaysPublish(h, time) ==
    LET results == RecordResult(newResults[h.sweep], h.method, h.size, h.depth, time)
    IN /\ newResults' = [newResults EXCEPT ![h.sweep] = results]
       /\ benchmarkResults' = h.sweep
       /\ isRunning' = FALSE
       /\ reported' = reported \cup {h.sweep}

\* the handler writing into one accumulator shared by all sweeps (the latest
\* newResults) instead of the object its own runBenchmarks allocated
OnCompleteSharedMatrix(h, time) ==
    LET latest == Len(newResults)
        results == RecordResult(newResults[latest], h.method, h.size, h.depth, time)
    IN /\ newResults' = [newResults EXCEPT ![latest] = results]
       /\ IF AllComplete(results, arraySizes)
          THEN /\ benchmarkResults' = latest
               /\ isRunning' = FALSE
               /\ reported' = reported \cup {latest}
          ELSE UNCHANGED <<benchmarkResults, isRunning, reported>>

\* the handler made by completeBenchmark, called with time
OnComplete(h, time) ==
    LET results == RecordResult(newResults[h.sweep], h.method, h.size, h.depth, time)
    IN /\ newResults' = [newResults EXCEPT ![h.sweep] = results]
       /\ IF AllComplete(results, arraySizes)
          THEN /\ benchmarkResults' = h.sweep
               /\ isRunning' = FALSE
               /\ reported' = reported \cup {h.sweep}
          ELSE UNCHANGED <<benchmarkResults, isRunning, reported>>

\* the leaf's useEffect of root r: apply the update, then onComplete(end - start)
Effect(r) ==
    /\ r \in pending
    /\ pending' = pending \ {r}
    /\ \E time \in 0..MaxElapsed :
          /\ OnComplete(roots[r].onComplete, time)
          /\ elapsed' = Put(elapsed, r, time)
    /\ LET m == roots[r].medium
       IN writers' = Put(writers, m,
                         (IF m \in DOMAIN writers THEN writers[m] ELSE {}) \cup {r})
    /\ UNCHANGED <<arraySizes, depths, roots, sim, gen>>

AnyEffect == \E r \in 1..MaxRuns : Effect(r)

Next == RunBenchmarks \/ AnyEffect

Spec == Init /\ [][Next]_vars

\* the rendering engine runs every mounted root's passive effect
FairSpec == Spec /\ WF_vars(AnyEffect)

\* ------------------------------------------------- one mounted BenchmarkApp
\* the update-apply call of the leaf: updateData(newData) or dispatch(...)
UpdateCall(method) == IF method = "context" THEN "updateData" ELSE "dispatch"

\* the body of the leaf's effect, in call order
EffectCalls(method) == <<UpdateCall(method), "onComplete">>

\* useEffect(fn) without a dependency array: fn is scheduled at every render
ShouldRunEffectNoDeps(isMount, prevDeps, nextDeps) == TRUE

\* useEffect(fn, []): fn is scheduled at the mount, and at an update only when
\* a dependency differs from the previous render's
ShouldRunEffect(isMount, prevDeps, nextDeps) == isMount \/ prevDeps # nextDeps

\* the leaf's dependency array
EffectDeps == <<>>

\* createRoot(...).render(<Medium><BenchmarkApp .../></Medium>)
SimMount ==
    /\ sim.phase = "idle"
    /\ \E method \in Methods, depth \in 0..MaxDepth :
          sim' = [sim EXCEPT !.phase = "mounted", !.method = method,
                             !.depth = depth]
    /\ UNCHANGED <<harnessVars, gen>>

\* the body of BenchmarkApp: startTime, then <NestedChild level={depth} />
SimRenderApp ==
    /\ sim.phase = "mounted"
    /\ sim' = [sim EXCEPT !.phase = "rendering", !.startTime = sim.now,
                          !.level = sim.depth]
    /\ UNCHANGED <<harnessVars, gen>>

\* NestedChild taking level 1 for the leaf
SimRenderChildLeafAtOne ==
    /\ sim.phase = "rendering"
    /\ IF sim.level = 1
       THEN sim' = [sim EXCEPT
                       !.phase = "committed",
                       !.leaves = @ + 1,
                       !.leafMounted = TRUE,
                       !.effectPending = TRUE]
       ELSE sim' = [sim EXCEPT !.layers = @ + 1, !.level = @ - 1]
    /\ UNCHANGED <<harnessVars, gen>>

\* the body of NestedChild at the current level
SimRenderChild ==
    /\ sim.phase = "rendering"
    /\ IF sim.level = 0
       THEN sim' = [sim EXCEPT
                       !.phase = "committed",
                       !.leaves = @ + 1,
                       !.leafMounted = TRUE,
                       !.effectPending =
                           ShouldRunEffect(~sim.leafMounted, EffectDeps, EffectDeps)]
       ELSE sim' = [sim EXCEPT !.layers = @ + 1, !.level = @ - 1]
    /\ UNCHANGED <<harnessVars, gen>>

\* the leaf's effect: the update, endTime, onComplete(endTime - startTime)
SimEffect ==
    /\ sim.phase = "committed"
    /\ sim.effectPending
    /\ LET applied == IF sim.method = "redux" THEN "newData" ELSE sim.data
       IN sim' = [sim EXCEPT
                     !.effectPending = FALSE,
                     !.calls = @ \o EffectCalls(sim.method),
                     !.time = sim.now - sim.startTime,
                     !.queued = (sim.method = "context"),
                     !.data = applied,
                     !.dataAtComplete = applied]
    /\ UNCHANGED <<harnessVars, gen>>

\* the ContextProvider renders with the queued setData; the context value is a
\* new object, so the leaf (the only consumer) renders again as an update
SimFlush ==
    /\ sim.phase = "committed"
    /\ sim.queued
    /\ sim' = [sim EXCEPT
                  !.queued = FALSE,
                  !.data = "newData",
                  !.effectPending =
                      sim.effectPending
                      \/ ShouldRunEffect(FALSE, EffectDeps, EffectDeps)]
    /\ UNCHANGED <<harnessVars, gen>>

\* performance.now() advances
SimTick ==
    /\ sim.phase # "idle"
    /\ sim.now < MaxTime
    /\ sim' = [sim EXCEPT !.now = @ + 1]
    /\ UNCHANGED <<harnessVars, gen>>

SimNext ==
    SimMount \/ SimRenderApp \/ SimRenderChild \/ SimEffect \/ SimFlush \/ SimTick

SimSpec == Init /\ [][SimNext]_vars

\* -------------------------------------------------------- generateTestData
\* ids counted from 1 instead of from the index
generateTestDataFromOne(size, random) ==
    [k \in 1..size |->
        [id |-> k, name |-> <<"Item ", NumberToString(k)>>, value |-> random[k]]]

\* Array.from({ length: size }, (_, i) => ({ id: i, name: `Item ${i}`, value }))
\* with i = k - 1 for the k-th element; random[k] is that element's
\* Math.random() * 1000
generateTestData(size, random) ==
    [k \in 1..size |->
        [id |-> k - 1, name |-> <<"Item ", NumberToString(k - 1)>>,
         value |-> random[k]]]

\* the sizes generateTestData is called with: the small ones and the configured
GenSizes == (0..MaxLen) \cup Range(arraySizes)

\* the values Math.random() delivers to one call: every choice for a small size,
\* one value repeated for a configured size
RandomDraws(size) ==
    IF size <= MaxLen THEN [1..size -> 0..MaxRand]
    ELSE {[k \in 1..size |-> v] : v \in 0..MaxRand}

\* a first call with some size
GenFirst ==
    /\ gen.results = <<>>
    /\ \E size \in GenSizes : \E random \in RandomDraws(size) :
          gen' = [size |-> size, results |-> <<generateTestData(size, random)>>]
    /\ UNCHANGED <<harnessVars, sim>>

\* a second call with the same size
GenAgain ==
    /\ Len(gen.results) = 1
    /\ \E random \in RandomDraws(gen.size) :
          gen' = [gen EXCEPT !.results = Append(@, generateTestData(gen.size, random))]
    /\ UNCHANGED <<harnessVars, sim>>

GenNext == GenFirst \/ GenAgain

GenSpec == Init /\ [][GenNext]_vars


\* ------------------------------------------------------ vocabulary of the claims
Sweeps == 1..Len(newResults)

RootsOf(k) == {r \in 1..Len(roots) : roots[r].sweep = k}

\* the configured cross product
Triples == Methods \X Range(arraySizes) \X Range(depths)

RunsPerSweep == 2 * Len(arraySizes) * Len(depths)

HasCell(results, m, s, d) ==
    /\ SizeLabel(s) \in DOMAIN results[m]
    /\ DepthLabel(d) \in DOMAIN results[m][SizeLabel(s)]

Cell(results, m, s, d) == results[m][SizeLabel(s)][DepthLabel(d)]

\* the populated leaf entries of a matrix
Leaves(results) ==
    UNION {UNION {{<<m, sl, dl>> : dl \in DOMAIN results[m][sl]} :
                    sl \in DOMAIN results[m]} : m \in Methods}

LeafValue(results, leaf) == results[leaf[1]][leaf[2]][leaf[3]]

FullyPopulated(results) ==
    /\ \A t \in Triples : HasCell(results, t[1], t[2], t[3])
    /\ Cardinality(Leaves(results)) = RunsPerSweep
    /\ \A leaf \in Leaves(results) : LeafValue(results, leaf) >= 0

\* the root a sweep issued for a triple
RootFor(k, m, s, d) ==
    CHOOSE r \in RootsOf(k) :
        roots[r].method = m /\ roots[r].arraySize = s /\ roots[r].depth = d

\* the matrix that holds, for every configured triple, the time that triple's
\* own run passed to onComplete
ExpectedRows(k, m) ==
    [sl \in {SizeLabel(s) : s \in Range(arraySizes)} |->
        [dl \in {DepthLabel(d) : d \in Range(depths)} |->
            LET s == CHOOSE x \in Range(arraySizes) : SizeLabel(x) = sl
                d == CHOOSE x \in Range(depths) : DepthLabel(x) = dl
            IN elapsed[RootFor(k, m, s, d)]]]

ExpectedResults(k) ==
    [context |-> ExpectedRows(k, "context"), redux |-> ExpectedRows(k, "redux")]

\* ------------------------------------------------------------------- claims
\* C1: whenever a sweep has reported completion (its handler has called
\* setBenchmarkResults and setIsRunning(false)), every (strategy, size, depth)
\* triple of the configured cross product has a populated, non-negative cell in
\* that sweep's matrix: 2 x |sizes| x |depths| leaf entries.
C1_FullWhenReported ==
    \A k \in reported : FullyPopulated(newResults[k])

\* C2: while a run issued by runBenchmarks has not delivered its completion
\* callback, isRunning is true (the button is disabled).
C2_RunningWhileOutstanding ==
    pending # {} => isRunning

\* C3: every propagation medium (store instance, ContextProvider instance) has
\* received the update of at most one run.
C3_MediumOwnedByOneRun ==
    \A m \in DOMAIN writers : Cardinality(writers[m]) <= 1

\* C4: once a run's completion has been recorded, the cell at
\* [strategy]["<size> objects"]["Depth <depth>"] of its sweep's matrix holds that
\* run's own elapsed time, in every later state.
C4_CellHoldsOwnTime ==
    \A r \in DOMAIN elapsed :
        /\ HasCell(newResults[roots[r].sweep], roots[r].method,
                   roots[r].arraySize, roots[r].depth)
        /\ Cell(newResults[roots[r].sweep], roots[r].method,
                roots[r].arraySize, roots[r].depth) = elapsed[r]

\* two runs of one row (same sweep, strategy and size) have both completed,
\* with different times
C4_Witness ==
    \E r1, r2 \in DOMAIN elapsed :
        /\ r1 < r2
        /\ roots[r1].sweep = roots[r2].sweep
        /\ roots[r1].method = roots[r2].method
        /\ roots[r1].arraySize = roots[r2].arraySize
        /\ elapsed[r1] # elapsed[r2]

\* C5: after all runs of a sweep have completed, in whatever order, the sweep's
\* matrix is exactly the matrix with one cell per configured triple, each
\* holding that triple's own elapsed time.
C5_OrderIndependent ==
    \A k \in Sweeps :
        (RootsOf(k) \cap pending = {}) => newResults[k] = ExpectedResults(k)

\* the reduced matrix {10, 100} x {5, 10}: all 8 runs of the sweep completed,
\* not all with the same time
C5_Witness ==
    /\ Len(arraySizes) = 2 /\ Len(depths) = 2
    /\ Len(roots) = 8
    /\ pending = {}
    /\ Cardinality(Leaves(newResults[1])) = 8
    /\ \E r1, r2 \in DOMAIN elapsed : elapsed[r1] # elapsed[r2]

\* C6: a sweep that still has a run whose completion callback has not been
\* invoked has not reported completion (so if that run never completes, the
\* sweep never reports).
C6_NoReportWhileOutstanding ==
    \A r \in pending : roots[r].sweep \notin reported

\* C7: a mounted BenchmarkApp of any depth >= 0 and either strategy calls
\* onComplete at most once, exactly once when its effect has run, and the
\* update-apply call (updateData / dispatch) precedes onComplete.
C7_OnceAfterUpdate ==
    LET completions == {i \in 1..Len(sim.calls) : sim.calls[i] = "onComplete"}
        effectRan == sim.phase = "committed" /\ ~sim.effectPending
    IN /\ Cardinality(completions) <= 1
       /\ effectRan => Cardinality(completions) = 1
       /\ \A i \in completions :
             \E j \in 1..(i - 1) : sim.calls[j] = UpdateCall(sim.method)

\* depth 0 with the scoped strategy: the effect has run, the provider has
\* rendered again with the new payload and so has the leaf
C7_Witness ==
    /\ sim.depth = 0
    /\ sim.method = "context"
    /\ sim.calls = <<"updateData", "onComplete">>
    /\ sim.data = "newData"
    /\ ~sim.queued

\* C8: one runBenchmarks issues exactly one root for every triple of
\* {context, redux} x arraySizes x depths, no other root, and each root's
\* onComplete is the handler made for the same triple and the same sweep.
C8_EveryTripleOnce ==
    \A k \in Sweeps :
        /\ \A t \in Triples :
              Cardinality({r \in RootsOf(k) :
                              /\ roots[r].method = t[1]
                              /\ roots[r].arraySize = t[2]
                              /\ roots[r].depth = t[3]}) = 1
        /\ Cardinality(RootsOf(k)) = RunsPerSweep
        /\ \A r \in RootsOf(k) :
              /\ <<roots[r].method, roots[r].arraySize, roots[r].depth>> \in Triples
              /\ roots[r].onComplete =
                    [sweep |-> k, method |-> roots[r].method,
                     size |-> roots[r].arraySize, depth |-> roots[r].depth]

\* a sweep over {10, 100} x {5, 10} has just been issued
C8_Witness ==
    /\ Len(arraySizes) = 2 /\ Len(depths) = 2
    /\ Len(roots) = 8
    /\ Cardinality(pending) = 8

\* C9: while the Report View holds a published matrix, no step changes the
\* content of the matrix it holds.
C9_PublishedIsFrozen ==
    [][(benchmarkResults # 0 /\ benchmarkResults' = benchmarkResults)
          => Deref(benchmarkResults)' = Deref(benchmarkResults)]_vars

AllReported == \A k \in Sweeps : k \in reported

\* C10: every sweep that was started eventually reports completion (its matrix
\* is published and isRunning is cleared), and isRunning turns true again only
\* by the next runBenchmarks.
C10_EventuallyReports ==
    /\ ~AllReported ~> (AllReported /\ ~isRunning)
    /\ [][(~isRunning /\ isRunning') => Len(newResults') = Len(newResults) + 1]_vars

\* the first sweep has reported with all its runs completed: its matrix is the
\* one the Report View holds and the flag is cleared
C10_Witness ==
    /\ 1 \in reported
    /\ RootsOf(1) \cap pending = {}
    /\ benchmarkResults = 1
    /\ ~isRunning

\* C11: generateTestData(s) returns a sequence of length exactly s whose ids, in
\* order, are 0..s-1 with no repeats and whose names are "Item <id>"; two calls
\* with the same s return sequences equal in length and ids.
C11_PayloadShape ==
    /\ \A c \in 1..Len(gen.results) :
          LET data == gen.results[c]
          IN /\ Len(data) = gen.size
             /\ \A k \in 1..Len(data) :
                   /\ data[k].id = k - 1
                   /\ data[k].name = <<"Item ", NumberToString(data[k].id)>>
             /\ {data[k].id : k \in 1..Len(data)} = 0..(gen.size - 1)
             /\ \A j, k \in 1..Len(data) : data[j].id = data[k].id => j = k
    /\ Len(gen.results) = 2 =>
          /\ Len(gen.results[1]) = Len(gen.results[2])
          /\ \A k \in 1..Len(gen.results[1]) :
                gen.results[1][k].id = gen.results[2][k].id

\* two calls with the first configured size, 10, whose values differ
C11_Witness ==
    /\ gen.size = allArraySizes[1]
    /\ Len(gen.results) = 2
    /\ gen.results[1] # gen.results[2]

\* C12: when onComplete is invoked the run's propagation medium (the store for
\* "redux", the ContextProvider's data for "context") already holds the run's
\* new payload.
C12_AppliedBeforeComplete ==
    (\E i \in 1..Len(sim.calls) : sim.calls[i] = "onComplete")
        => sim.dataAtComplete = "newData"

\* C15: a BenchmarkApp of depth d >= 0 instantiates exactly d forwarding layers
\* (levels d..1) and then exactly one leaf (level 0); with d = 0 the leaf is the
\* root; the descent never passes level 0, so it ends after d + 1 renders.
C15_LayersThenLeaf ==
    /\ sim.level \in 0..sim.depth
    /\ sim.phase = "rendering" =>
          /\ sim.layers = sim.depth - sim.level
          /\ sim.leaves = 0
    /\ sim.phase = "committed" =>
          /\ sim.layers = sim.depth
          /\ sim.level = 0
          /\ sim.leaves = 1
    /\ sim.phase \in {"idle", "mounted"} => sim.layers = 0 /\ sim.leaves = 0

\* depth 0 with the broadcast strategy: the leaf is the root, no layer was
\* instantiated and its effect has run
C15_Witness ==
    /\ sim.depth = 0
    /\ sim.method = "redux"
    /\ sim.phase = "committed"
    /\ sim.layers = 0
    /\ sim.leaves = 1
    /\ sim.calls = <<"dispatch", "onComplete">>

\* the cells of the runs of sweep k whose completion callback has been invoked
CompletedCells(k) ==
    {<<roots[r].method, SizeLabel(roots[r].arraySize), DepthLabel(roots[r].depth)>> :
        r \in RootsOf(k) \cap DOMAIN elapsed}

\* C13: the populated cells of a sweep's matrix are exactly the cells of that
\* sweep's runs whose completion callback has been invoked.
C13_CellsAreCompletedRuns ==
    \A k \in Sweeps : Leaves(newResults[k]) = CompletedCells(k)

\* the reduced matrix {10, 100} x {5, 10} with 3 runs completed and 5 outstanding
C13_Witness ==
    /\ Len(arraySizes) = 2 /\ Len(depths) = 2
    /\ Cardinality(DOMAIN elapsed) = 3
    /\ Cardinality(pending) = 5
    /\ Cardinality(Leaves(newResults[1])) = 3

\* this step is the call of runBenchmarks
TriggerStep == Len(newResults') = Len(newResults) + 1

\* this step is the effect of root r, with its call of the completion handler
RecordStep(r) == r \in pending /\ pending' = pending \ {r}

\* C14: a record call after which the completeness check is false leaves
\* benchmarkResults (the reference and the matrix it refers to) and isRunning
\* unchanged, and so does the trigger for benchmarkResults: from the trigger
\* until a record whose check succeeds the Report View keeps its value.
C14_FailedCheckChangesNothing ==
    [][/\ \A r \in pending :
             (RecordStep(r)
                /\ ~AllComplete(newResults'[roots[r].sweep], arraySizes))
             => /\ benchmarkResults' = benchmarkResults
                /\ isRunning' = isRunning
                /\ Deref(benchmarkResults)' = Deref(benchmarkResults)
       /\ TriggerStep
             => /\ benchmarkResults' = benchmarkResults
                /\ Deref(benchmarkResults)' = Deref(benchmarkResults)]_vars

\* a second sweep is running, one of its runs has been recorded with the check
\* still false, and the Report View still holds the first sweep's matrix
C14_Witness ==
    /\ Len(newResults) = 2
    /\ benchmarkResults = 1
    /\ isRunning
    /\ 2 \notin reported
    /\ \E r \in DOMAIN elapsed : roots[r].sweep = 2

\* C18: runBenchmarks allocates a new, empty matrix and leaves the matrices of
\* the earlier sweeps as they are; a completion handler changes no matrix but
\* the one of the sweep that issued its run.
C18_OwnFreshMatrix ==
    [][/\ TriggerStep
             => /\ newResults'[Len(newResults')] = EmptyResults
                /\ \A j \in Sweeps : newResults'[j] = newResults[j]
       /\ \A r \in pending :
             RecordStep(r)
             => \A j \in Sweeps \ {roots[r].sweep} : newResults'[j] = newResults[j]]_vars

\* a run of the first sweep is still outstanding while the second sweep has
\* recorded its first run
C18_Witness ==
    /\ Len(newResults) = 2
    /\ \E r \in pending : roots[r].sweep = 1
    /\ Cardinality(Leaves(newResults[2])) = 1
    /\ Leaves(newResults[1]) # {}

\* the handler called in the step of root r takes the branch of lines 134-135
CompletionStepRuns(r) == AllComplete(newResults'[roots[r].sweep], arraySizes)

\* C16: within one sweep the completion step (setBenchmarkResults and
\* setIsRunning(false)) is executed at most once: a record call of a sweep that
\* has already reported does not execute it again.
C16_CompletionStepOnce ==
    [][\A r \in pending :
          (RecordStep(r) /\ roots[r].sweep \in reported)
          => ~CompletionStepRuns(r)]_vars

\* C17: while the latest sweep has not satisfied its own completeness check, a
\* completion callback of an earlier sweep neither clears isRunning nor sets
\* benchmarkResults.
C17_EarlierSweepCannotEnd ==
    [][\A r \in pending :
          (/\ RecordStep(r)
           /\ roots[r].sweep < Len(newResults)
           /\ ~AllComplete(newResults[Len(newResults)], arraySizes))
          => /\ isRunning' = isRunning
             /\ benchmarkResults' = benchmarkResults]_vars

====
